---- MODULE Spec2Model ----
(***************************************************************************)
(* Model of the WebRTC signaling and session-proxy layer of app.py:        *)
(* the ICE policy builder, the in-memory session store, the /api/offer     *)
(* routes, /start and the /sessions/{session_id}/{path} proxy.             *)
(*                                                                         *)
(* Strings whose characters the code inspects (environment values, URL     *)
(* paths) are sequences of one-character strings.  JSON values the code    *)
(* only tests for presence and truthiness are tokens ("null", "{}", ...).  *)
(***************************************************************************)
EXTENDS Naturals, Sequences, FiniteSets, TLC

VARIABLES
    env,                \* os.environ: TURN_URL, TURN_USERNAME, TURN_CREDENTIAL
    loaded,             \* the module body of app.py has run
    ICE_SERVERS,        \* engine-facing list handed to the request handler
    ICE_CONFIG_FOR_CLIENT, \* ["iceServers"]: client-facing list
    active_sessions,    \* session id -> stored body
    started,            \* history: session id -> the body field /start was given
    pcs,                \* the request handler's peer connections, by pc_id
    inflight,           \* requests suspended at an await
    bots,               \* bot pipeline tasks that have left a BackgroundTasks list
    resp,               \* the last HTTP response sent
    xin,                \* proxy body translation: the inputs
    xout,               \* proxy body translation: the SmallWebRTCRequest built
    served,             \* requests accepted so far
    lifecycle,          \* the application's lifespan: its phase and the close() calls
    bot_processes,      \* server.py: port -> the process tracked for it
    procs,              \* server.py: the bot processes spawned so far
    launches,           \* server.py: /launch requests in their startup wait
    sresp,              \* server.py: the last response sent
    server_up,          \* server.py: the shutdown handler has not run
    edge_tts            \* edge_tts_service.py: one run of EdgeTTSService.run_tts

vars == <<env, loaded, ICE_SERVERS, ICE_CONFIG_FOR_CLIENT, active_sessions,
          started, pcs, inflight, bots, resp, xin, xout, served, lifecycle,
          bot_processes, procs, launches, sresp, server_up, edge_tts>>

\* The state of the multi-pipeline server, server.py.
multi == <<bot_processes, procs, launches, sresp, server_up>>

\* What no request handler writes.
config == <<env, loaded, ICE_SERVERS, ICE_CONFIG_FOR_CLIENT, xin, xout, lifecycle, multi, edge_tts>>

-----------------------------------------------------------------------------
(* server.py before any request *)

NoServerResp == [route |-> "none", status |-> 0, text |-> "", port |-> 0, proc |-> 0]

InitMulti ==
    /\ bot_processes = <<>>
    /\ procs = <<>>
    /\ launches = {}
    /\ sresp = NoServerResp
    /\ server_up = TRUE

-----------------------------------------------------------------------------
(* edge_tts_service.py before run_tts is called *)

NoTts == [pc |-> "idle", chunks |-> <<>>, mp3_buffer |-> <<>>, pcm_data |-> <<>>,
          chunk_size |-> 0, offset |-> 0, frames |-> <<>>]

-----------------------------------------------------------------------------
(* Strings *)

Str_turn  == <<"t", "u", "r", "n", ":">>
Str_turns == <<"t", "u", "r", "n", "s", ":">>
\* stands for "stun:stun.l.google.com:19302"
Str_stun  == <<"s", "t", "u", "n", ":", "g">>

IsSpace(c) == c = " "

RECURSIVE lstrip(_)
lstrip(s) == IF s # <<>> /\ IsSpace(Head(s)) THEN lstrip(Tail(s)) ELSE s

RECURSIVE rstrip(_)
rstrip(s) ==
    IF s # <<>> /\ IsSpace(s[Len(s)]) THEN rstrip(SubSeq(s, 1, Len(s) - 1)) ELSE s

\* str.strip()
strip(s) == rstrip(lstrip(s))

\* str.startswith / str.endswith
StartsWith(s, p) == Len(s) >= Len(p) /\ SubSeq(s, 1, Len(p)) = p
EndsWith(s, p) == Len(s) >= Len(p) /\ SubSeq(s, Len(s) - Len(p) + 1, Len(s)) = p

-----------------------------------------------------------------------------
(* ICE policy builder *)

\* An environment variable is unset or holds a string.
Unset == [isset |-> FALSE, val |-> <<>>]
Val(s) == [isset |-> TRUE, val |-> s]

\* (os.getenv(name) or "")
getenv_or_empty(e) == IF e.isset /\ e.val # <<>> THEN e.val ELSE <<>>

StunServer == [urls |-> Str_stun, username |-> <<>>, credential |-> <<>>]
StunClient == [urls |-> <<Str_stun>>, auth |-> FALSE,
               username |-> <<>>, credential |-> <<>>]

\* Mutation of build_ice_servers: the values are not stripped.
build_ice_servers_nostrip(e) ==
    LET turn_url == getenv_or_empty(e.TURN_URL)
        turn_username == getenv_or_empty(e.TURN_USERNAME)
        turn_credential == getenv_or_empty(e.TURN_CREDENTIAL)
    IN  IF turn_url # <<>> /\ turn_username # <<>> /\ turn_credential # <<>>
        THEN [server |-> <<StunServer,
                           [urls |-> turn_url, username |-> turn_username,
                            credential |-> turn_credential]>>,
              client |-> <<StunClient,
                           [urls |-> <<turn_url>>, auth |-> TRUE,
                            username |-> turn_username,
                            credential |-> turn_credential]>>]
        ELSE [server |-> <<StunServer>>, client |-> <<StunClient>>]

\* Mutation of build_ice_servers: the client list takes the URL as it is in the
\* environment, the engine list takes it stripped.
build_ice_servers_client_raw(e) ==
    LET turn_url == strip(getenv_or_empty(e.TURN_URL))
        turn_username == strip(getenv_or_empty(e.TURN_USERNAME))
        turn_credential == strip(getenv_or_empty(e.TURN_CREDENTIAL))
    IN  IF turn_url # <<>> /\ turn_username # <<>> /\ turn_credential # <<>>
        THEN [server |-> <<StunServer,
                           [urls |-> turn_url, username |-> turn_username,
                            credential |-> turn_credential]>>,
              client |-> <<StunClient,
                           [urls |-> <<getenv_or_empty(e.TURN_URL)>>, auth |-> TRUE,
                            username |-> turn_username,
                            credential |-> turn_credential]>>]
        ELSE [server |-> <<StunServer>>, client |-> <<StunClient>>]

\* build_ice_servers(): (server_ice, client_ice)
build_ice_servers(e) ==
    LET turn_url == strip(getenv_or_empty(e.TURN_URL))
        turn_username == strip(getenv_or_empty(e.TURN_USERNAME))
        turn_credential == strip(getenv_or_empty(e.TURN_CREDENTIAL))
    IN  IF turn_url # <<>> /\ turn_username # <<>> /\ turn_credential # <<>>
        THEN [server |-> <<StunServer,
                           [urls |-> turn_url, username |-> turn_username,
                            credential |-> turn_credential]>>,
              client |-> <<StunClient,
                           [urls |-> <<turn_url>>, auth |-> TRUE,
                            username |-> turn_username,
                            credential |-> turn_credential]>>]
        ELSE [server |-> <<StunServer>>, client |-> <<StunClient>>]

\* The environment values the ICE specification draws from.
UrlValues ==
    { Unset, Val(<<>>), Val(<<" ">>),
      Val(Str_turn \o <<"h">>), Val(<<" ">> \o Str_turn \o <<"h", " ">>),
      Val(Str_turns \o <<"h">>), Val(Str_stun) }
UserValues == { Unset, Val(<<" ">>), Val(<<"u">>), Val(<<" ", "u">>), Val(<<" ", " ">>) }
CredValues == { Unset, Val(<<>>), Val(<<" ">>), Val(<<"p">>), Val(<<"p", " ">>) }

Envs == [TURN_URL : UrlValues, TURN_USERNAME : UserValues, TURN_CREDENTIAL : CredValues]

-----------------------------------------------------------------------------
(* Bounds *)

MaxRequests == 4        \* requests the service accepts in one behaviour

-----------------------------------------------------------------------------
(* JSON values *)

Absent == "absent"      \* the key is not in the object
JNull == "null"         \* JSON null, Python None
JEmpty == "{}"
JFalse == "false"

\* bool(v) of a decoded JSON value
Truthy(v) == v \notin {Absent, JNull, JEmpty, JFalse}

\* dict.get(key, default) / dict.get(key)
get_default(v, default) == IF v = Absent THEN default ELSE v
get(v) == get_default(v, JNull)

\* a or b
py_or(a, b) == IF Truthy(a) THEN a ELSE b

StartBodies == {Absent, JNull, JEmpty, "{s:1}"}
RequestDataValues == {Absent, JNull, JEmpty, JFalse, "{a:1}"}
RequestDataCamelValues == {Absent, JNull, JEmpty, "{b:2}"}

-----------------------------------------------------------------------------
(* URL paths and methods of the session proxy *)

Str_api_offer == <<"a", "p", "i", "/", "o", "f", "f", "e", "r">>

Str_v1 == <<"v", "1", "/">>
OfferPaths == { Str_api_offer, Str_v1 \o Str_api_offer }
Paths == OfferPaths \cup { Str_api_offer \o <<"/">>, <<>> }

Methods == {"GET", "POST", "PATCH", "DELETE"}


-----------------------------------------------------------------------------
(* Request bodies *)

NotJson == [json |-> FALSE, sdp |-> Absent, type |-> Absent, pc_id |-> 0,
            request_data |-> Absent, requestData |-> Absent, candidates |-> <<>>]

\* A JSON object; pc_id 0 stands for no "pc_id" key.
Obj(sdp, type, pc_id, rd, rdCamel, cands) ==
    [json |-> TRUE, sdp |-> sdp, type |-> type, pc_id |-> pc_id,
     request_data |-> rd, requestData |-> rdCamel, candidates |-> cands]

\* One entry of "candidates": ok is FALSE when IceCandidate(**c) raises.
Cand(name) == [ok |-> TRUE, candidate |-> name]
BadCand == [ok |-> FALSE, candidate |-> "x"]

CandLists == { <<>>, <<Cand("host")>>, <<Cand("host"), Cand("relay")>> }

OfferBodies(P) ==
    { Obj("v=0", "offer", p, Absent, Absent, <<>>) : p \in P \cup {0} }
    \cup { Obj(Absent, "offer", 0, Absent, Absent, <<>>),
           Obj("v=0", Absent, 0, Absent, Absent, <<>>),
           Obj(Absent, Absent, 1, "{a:1}", Absent, <<>>) }

PatchBodies(P) ==
    { Obj(Absent, Absent, p, Absent, Absent, cl) : p \in P, cl \in CandLists }
    \cup { Obj(Absent, Absent, 0, Absent, Absent, <<Cand("host")>>),
           Obj(Absent, Absent, 1, Absent, Absent, <<Cand("host"), BadCand>>) }

\* One object that is a well-formed body of neither an offer nor a patch.
OtherBody == Obj(Absent, Absent, 0, Absent, Absent, <<>>)

\* What the claims call a malformed body of POST/PATCH .../api/offer.
BodyMalformed(method, b) ==
    \/ ~b.json
    \/ method = "POST" /\ (b.sdp = Absent \/ b.type = Absent)
    \/ method = "PATCH" /\ (b.pc_id = 0 \/ \E i \in DOMAIN b.candidates : ~b.candidates[i].ok)

-----------------------------------------------------------------------------
(* Responses *)

\* route, via, method: the request; status: the HTTP status.  The rest records
\* what the handler met: known, the session id is one /start returned; bodyOk,
\* the session body it read is the one /start was given; endsOffer, the path
\* ends in api/offer; malformed, BodyMalformed held; found, the handler found
\* the pc_id; reneg, the offer renegotiated an existing connection.
NoResp == [route |-> "none", via |-> "direct", status |-> 0, known |-> FALSE,
           bodyOk |-> FALSE, method |-> "GET", endsOffer |-> FALSE,
           malformed |-> FALSE, found |-> FALSE, reneg |-> FALSE,
           sid |-> 0, sessionId |-> <<>>, iceConfig |-> FALSE, iceServers |-> 0,
           turn_configured |-> FALSE]

\* The response r is sent.
Send(r) == resp' = r

-----------------------------------------------------------------------------
(* SmallWebRTCRequestHandler: the peer connections and their lookup *)

NewPc == [state |-> "NEGOTIATING", cands |-> <<>>, callbacks |-> 0, answered |-> FALSE]

\* The handler finds pc_id among its live connections.
handler_knows(p, pc_id) == pc_id \in DOMAIN p /\ p[pc_id].state = "CONNECTED"

\* No response is on its way out: the next step of a handler may run.
Idle == resp = NoResp

\* The lifespan before shutdown: no close() yet.
Serving == [phase |-> "serving", close_calls |-> 0, negotiating |-> 0]

\* A request is accepted: the server takes requests until it is told to stop.
Accept ==
    /\ Idle /\ lifecycle.phase = "serving"
    /\ served < MaxRequests /\ served' = served + 1

-----------------------------------------------------------------------------
(* Exceptions at the request boundary *)

\* An exception that leaves a route function: FastAPI answers an HTTPException
\* with its status code and anything else with 500.
framework_status(exc) == IF exc = "NotFound" THEN 404 ELSE 500

\* except Exception in proxy_request
proxy_except(exc) == 400

route_status(via, exc) ==
    IF via = "proxy" THEN proxy_except(exc) ELSE framework_status(exc)

-----------------------------------------------------------------------------
(* POST /api/offer *)

Task(connection, body) == [pc_id |-> connection, body |-> body]

\* Mutation: the callback schedules the bot twice.
webrtc_connection_callback_twice(bg, connection, body) ==
    [bg |-> bg \o <<Task(connection, body), Task(connection, body)>>, run |-> <<>>]

\* Mutation: the callback runs the bot itself instead of scheduling it.
webrtc_connection_callback_inline(bg, connection, body) ==
    [bg |-> bg, run |-> <<Task(connection, body)>>]

\* webrtc_connection_callback: background_tasks.add_task(bot_module.bot, runner_args).
\* bg is the request's BackgroundTasks list; run lists what it starts itself.
webrtc_connection_callback(bg, connection, body) ==
    [bg |-> Append(bg, Task(connection, body)), run |-> <<>>]

InFlightOffer(via, meta, request, conn, reneg) ==
    [kind |-> "offer", via |-> via, meta |-> meta, conn |-> conn, reneg |-> reneg,
     request_data |-> request.request_data, cands |-> <<>>, bg |-> <<>>,
     stage |-> "exchange"]

\* Mutation: an offer whose pc_id is not known is taken for a new connection.
offer_unknown_as_new(via, meta, request) ==
    IF request.pc_id # 0 /\ handler_knows(pcs, request.pc_id)
    THEN LET r == InFlightOffer(via, meta, request, request.pc_id, TRUE) IN
         /\ r \notin inflight
         /\ inflight' = inflight \cup {r}
         /\ UNCHANGED <<pcs, bots, resp>>
    ELSE LET r == InFlightOffer(via, meta, request, Len(pcs) + 1, FALSE) IN
         /\ pcs' = Append(pcs, NewPc)
         /\ inflight' = inflight \cup {r}
         /\ UNCHANGED <<bots, resp>>

\* offer(), to the first suspension inside handle_web_request
offer(via, meta, request) ==
    IF request.pc_id = 0
    THEN LET r == InFlightOffer(via, meta, request, Len(pcs) + 1, FALSE) IN
         /\ pcs' = Append(pcs, NewPc)
         /\ inflight' = inflight \cup {r}
         /\ UNCHANGED <<bots, resp>>
    ELSE IF handler_knows(pcs, request.pc_id)
    THEN LET r == InFlightOffer(via, meta, request, request.pc_id, TRUE) IN
         /\ r \notin inflight
         /\ inflight' = inflight \cup {r}
         /\ UNCHANGED <<pcs, bots, resp>>
    ELSE /\ Send([meta EXCEPT !.route = "offer",
                              !.status = route_status(via, "NotFound")])
         /\ UNCHANGED <<pcs, inflight, bots>>

Running(tasks) == [i \in DOMAIN tasks |-> [pc_id |-> tasks[i].pc_id,
                                           body |-> tasks[i].body,
                                           state |-> "running"]]
Queued(tasks) == [i \in DOMAIN tasks |-> [pc_id |-> tasks[i].pc_id,
                                          body |-> tasks[i].body,
                                          state |-> "queued"]]

\* handle_web_request resumes: the offer/answer exchange has ended.
handle_web_request(r, ok) ==
    /\ Idle
    /\ r \in inflight /\ r.kind = "offer" /\ r.stage = "exchange"
    /\ IF ~ok
       THEN /\ pcs' = [pcs EXCEPT ![r.conn].state = "CLOSED", ![r.conn].cands = <<>>]
            /\ inflight' = inflight \ {r}
            /\ Send([r.meta EXCEPT !.route = "offer", !.found = TRUE,
                                   !.status = route_status(r.via, "Failed")])
            /\ UNCHANGED bots
       ELSE IF r.reneg
       THEN /\ inflight' = (inflight \ {r}) \cup {[r EXCEPT !.stage = "answered"]}
            /\ UNCHANGED <<pcs, bots, resp>>
       ELSE LET cb == webrtc_connection_callback(r.bg, r.conn, r.request_data) IN
            /\ pcs' = [pcs EXCEPT ![r.conn].state = "CONNECTED",
                                  ![r.conn].callbacks = @ + 1]
            /\ inflight' = (inflight \ {r})
                              \cup {[r EXCEPT !.stage = "answered", !.bg = cb.bg]}
            /\ bots' = bots \o Running(cb.run)
            /\ UNCHANGED resp
    /\ UNCHANGED <<config, served, active_sessions, started>>

\* return answer: the response is sent, then its background tasks are due.
offer_return(r) ==
    /\ Idle
    /\ r \in inflight /\ r.kind = "offer" /\ r.stage = "answered"
    /\ inflight' = inflight \ {r}
    /\ pcs' = [pcs EXCEPT ![r.conn].answered = @ \/ ~r.reneg]
    /\ bots' = bots \o Queued(r.bg)
    /\ Send([r.meta EXCEPT !.route = "offer", !.status = 200, !.found = TRUE,
                           !.reneg = r.reneg])
    /\ UNCHANGED <<config, served, active_sessions, started>>

\* A background task starts: bot_module.bot(runner_args) runs.
run_background_task(i) ==
    /\ Idle
    /\ i \in DOMAIN bots /\ bots[i].state = "queued"
    /\ bots' = [bots EXCEPT ![i].state = "running"]
    /\ UNCHANGED <<config, served, active_sessions, started, pcs, inflight, resp>>

\* bot_module.bot(runner_args) raises after it started: the exception ends the
\* background task, the response of its request has left already.
bot_fails(i) ==
    /\ Idle
    /\ i \in DOMAIN bots /\ bots[i].state = "running"
    /\ bots' = [bots EXCEPT ![i].state = "failed"]
    /\ UNCHANGED <<config, served, active_sessions, started, pcs, inflight, resp>>

DirectMeta(route, method) ==
    [NoResp EXCEPT !.route = route, !.method = method, !.endsOffer = TRUE]

post_api_offer(request) ==
    /\ Accept
    /\ offer("direct", DirectMeta("offer", "POST"), request)
    /\ UNCHANGED <<config, active_sessions, started>>

-----------------------------------------------------------------------------
(* PATCH /api/offer *)

\* The candidates of a request, each with the arrival number of its request
\* and its place in the list.
Received(candidates, seq) ==
    [i \in DOMAIN candidates |-> [candidate |-> candidates[i], seq |-> seq, idx |-> i]]

\* ice_candidate(), to the first suspension inside handle_patch_request
ice_candidate(via, meta, request) ==
    IF ~handler_knows(pcs, request.pc_id)
    THEN /\ Send([meta EXCEPT !.route = "patch",
                              !.status = route_status(via, "NotFound")])
         /\ UNCHANGED <<pcs, inflight, bots>>
    ELSE LET r == [kind |-> "patch", via |-> via, meta |-> meta,
                   conn |-> request.pc_id, reneg |-> FALSE,
                   request_data |-> JNull,
                   cands |-> Received(request.candidates, served + 1),
                   bg |-> <<>>, stage |-> "apply"] IN
         /\ r \notin inflight
         /\ inflight' = inflight \cup {r}
         /\ UNCHANGED <<pcs, bots, resp>>

\* await peer_connection.add_ice_candidate(candidate), once per candidate
add_ice_candidate(r) ==
    /\ Idle
    /\ r \in inflight /\ r.kind = "patch" /\ r.cands # <<>>
    /\ IF pcs[r.conn].state = "CONNECTED"
       THEN /\ pcs' = [pcs EXCEPT ![r.conn].cands = Append(@, Head(r.cands))]
            /\ inflight' = (inflight \ {r}) \cup {[r EXCEPT !.cands = Tail(@)]}
            /\ UNCHANGED resp
       ELSE \* the connection was closed under the request
            /\ inflight' = inflight \ {r}
            /\ Send([r.meta EXCEPT !.route = "patch", !.found = TRUE,
                                   !.status = route_status(r.via, "Failed")])
            /\ UNCHANGED pcs
    /\ UNCHANGED <<config, served, active_sessions, started, bots>>

\* return {"status": "success"}
ice_candidate_return(r) ==
    /\ Idle
    /\ r \in inflight /\ r.kind = "patch" /\ r.cands = <<>>
    /\ inflight' = inflight \ {r}
    /\ Send([r.meta EXCEPT !.route = "patch", !.status = 200, !.found = TRUE])
    /\ UNCHANGED <<config, served, active_sessions, started, pcs, bots>>

patch_api_offer(request) ==
    /\ Accept
    /\ ice_candidate("direct", DirectMeta("patch", "PATCH"), request)
    /\ UNCHANGED <<config, active_sessions, started>>

-----------------------------------------------------------------------------
(* GET /health *)

\* Mutation: TURN is reported as configured whenever TURN_URL gave a server list.
turn_configured_any_server(servers) == servers # <<>>

\* any(s.username for s in ICE_SERVERS if hasattr(s, "username") and s.username)
turn_configured(servers) == \E i \in DOMAIN servers : servers[i].username # <<>>

health ==
    /\ loaded
    /\ Accept
    /\ Send([NoResp EXCEPT !.route = "health", !.status = 200,
                           !.turn_configured = turn_configured(ICE_SERVERS)])
    /\ UNCHANGED <<config, active_sessions, started, pcs, inflight, bots>>

-----------------------------------------------------------------------------
(* POST /start and the session store *)

\* request_data.get("body", {})
start_body(body) == get_default(body, JEmpty)

\* d[k] = v on a dict
dict_set(d, k, v) == [x \in DOMAIN d \cup {k} |-> IF x = k THEN v ELSE d[x]]

\* Mutation: the id is not fresh, every session gets the first id.
new_session_id_fixed(sessions) == 1

\* uuid.uuid4(): an id no session has yet, here the next number.
new_session_id(sessions) == Cardinality(DOMAIN sessions) + 1

HexDigits == <<"0", "1", "2", "3", "4", "5", "6", "7",
               "8", "9", "a", "b", "c", "d", "e", "f">>

\* The 32 hex digits of a uuid.
uuid_hex(n) == [i \in 1..32 |-> IF i = 32 THEN HexDigits[(n % 16) + 1] ELSE "0"]

\* str(uuid): the digits in groups of 8-4-4-4-12 joined by hyphens.
uuid_str(n) ==
    LET h == uuid_hex(n)
    IN  SubSeq(h, 1, 8) \o <<"-">> \o SubSeq(h, 9, 12) \o <<"-">> \o SubSeq(h, 13, 16)
          \o <<"-">> \o SubSeq(h, 17, 20) \o <<"-">> \o SubSeq(h, 21, 32)

\* Mutation: iceConfig is returned only when the client asks for it.
include_ice_config_on_request(flag, iceServers) == flag

\* if request_data.get("enableDefaultIceServers") or ICE_CONFIG_FOR_CLIENT["iceServers"]
include_ice_config(flag, iceServers) == flag \/ iceServers # <<>>

\* POST /start.  kind: the request body is not JSON, a JSON object or a JSON array.
rtvi_start(kind, body, enableDefaultIceServers) ==
    LET request_data == IF kind = "nojson"
                        THEN [body |-> Absent, enableDefaultIceServers |-> FALSE]
                        ELSE [body |-> body,
                              enableDefaultIceServers |-> enableDefaultIceServers]
        session_id == new_session_id(active_sessions)
        withIce == include_ice_config(request_data.enableDefaultIceServers,
                                      ICE_CONFIG_FOR_CLIENT)
    IN  /\ Accept
        /\ IF kind = "array"
           THEN \* a list has no .get: AttributeError
                /\ Send([NoResp EXCEPT !.route = "start", !.method = "POST",
                                       !.status = framework_status("AttributeError")])
                /\ UNCHANGED <<active_sessions, started>>
           ELSE /\ active_sessions' =
                      dict_set(active_sessions, session_id, start_body(request_data.body))
                /\ started' = dict_set(started, session_id, request_data.body)
                /\ Send([NoResp EXCEPT !.route = "start", !.method = "POST",
                                       !.status = 200, !.known = TRUE,
                                       !.sid = session_id,
                                       !.sessionId = uuid_str(session_id),
                                       !.iceConfig = withIce,
                                       !.iceServers = IF withIce
                                                      THEN Len(ICE_CONFIG_FOR_CLIENT)
                                                      ELSE 0])
        /\ UNCHANGED <<config, pcs, inflight, bots>>

-----------------------------------------------------------------------------
(* The session proxy *)

\* active_sessions.get(session_id)
session_get(sessions, session_id) ==
    IF session_id \in DOMAIN sessions THEN sessions[session_id] ELSE JNull

\* Mutation: no session is ever reported missing.
session_missing_never(active_session) == FALSE

\* if active_session is None
session_missing(active_session) == active_session = JNull

\* path.endswith("api/offer")
is_offer_path(path) == EndsWith(path, Str_api_offer)

\* request_data["sdp"], request_data["type"]: KeyError when the key is missing
offer_request_raises(b) == b.sdp = Absent \/ b.type = Absent

\* request_data["pc_id"]: KeyError; IceCandidate(**c): TypeError
patch_request_raises(b) ==
    b.pc_id = 0 \/ \E i \in DOMAIN b.candidates : ~b.candidates[i].ok

\* request_data.get("request_data") or request_data.get("requestData") or active_session
pick_request_data(b, active_session) ==
    py_or(py_or(get(b.request_data), get(b.requestData)), active_session)

\* SmallWebRTCRequest(...) built from the proxied body
translate_offer(b, active_session) ==
    [pc_id |-> b.pc_id, request_data |-> pick_request_data(b, active_session)]

\* SmallWebRTCPatchRequest(...) built from the proxied body
translate_patch(b) ==
    [pc_id |-> b.pc_id,
     candidates |-> [i \in DOMAIN b.candidates |-> b.candidates[i].candidate]]

\* return Response(status_code=200)
passthrough_status == 200

proxy_request(session_id, path, method, b) ==
    LET active_session == session_get(active_sessions, session_id)
        known == session_id \in DOMAIN started
        meta == [NoResp EXCEPT !.route = "proxy", !.via = "proxy",
                               !.known = known,
                               !.bodyOk = known /\ active_session
                                             = get_default(started[session_id], JEmpty),
                               !.method = method,
                               !.endsOffer = is_offer_path(path),
                               !.malformed = BodyMalformed(method, b)]
        Answer(status) == /\ Send([meta EXCEPT !.status = status])
                          /\ UNCHANGED <<pcs, inflight, bots>>
    IN  /\ Accept
        /\ IF session_missing(active_session)
           THEN Answer(404)
           ELSE IF is_offer_path(path)
           THEN IF ~b.json
                THEN Answer(proxy_except("JSONDecodeError"))
                ELSE IF method = "POST"
                THEN IF offer_request_raises(b)
                     THEN Answer(proxy_except("KeyError"))
                     ELSE offer("proxy", meta, translate_offer(b, active_session))
                ELSE IF method = "PATCH"
                THEN IF patch_request_raises(b)
                     THEN Answer(proxy_except("KeyError"))
                     ELSE ice_candidate("proxy", meta, translate_patch(b))
                ELSE Answer(passthrough_status)
           ELSE Answer(passthrough_status)
        /\ UNCHANGED <<config, active_sessions, started>>

-----------------------------------------------------------------------------
(* The service *)

FullTurn == [TURN_URL |-> Val(Str_turn \o <<"h">>), TURN_USERNAME |-> Val(<<"u">>),
             TURN_CREDENTIAL |-> Val(<<"p">>)]
NoTurn == [TURN_URL |-> Unset, TURN_USERNAME |-> Unset, TURN_CREDENTIAL |-> Unset]

NoXlate == [b |-> NotJson, active_session |-> JNull]
NoRequest == [built |-> FALSE, pc_id |-> 0, request_data |-> JNull]

\* The state once app.py is imported.
Init ==
    /\ env = FullTurn
    /\ loaded = TRUE
    /\ ICE_SERVERS = build_ice_servers(env).server
    /\ ICE_CONFIG_FOR_CLIENT = build_ice_servers(env).client
    /\ active_sessions = <<>>
    /\ started = <<>>
    /\ pcs = <<>>
    /\ inflight = {}
    /\ bots = <<>>
    /\ resp = NoResp
    /\ xin = NoXlate
    /\ xout = NoRequest
    /\ lifecycle = Serving
    /\ InitMulti
    /\ edge_tts = NoTts
    /\ served = 0

\* The requests sent to the session proxy: every method on every path, with
\* the bodies of an offer on POST and those of a patch on PATCH.
ProxyRequests(P) ==
    [path : {Str_api_offer}, method : {"POST"}, b : {NotJson} \cup OfferBodies(P)]
    \cup [path : {Str_api_offer}, method : {"PATCH"}, b : {NotJson} \cup PatchBodies(P)]
    \cup [path : Paths, method : Methods, b : {NotJson, OtherBody}]
    \cup [path : Paths \ {Str_api_offer}, method : {"POST"},
          b : {Obj("v=0", "offer", 0, Absent, Absent, <<>>)}]
    \cup [path : Paths \ {Str_api_offer}, method : {"PATCH"},
          b : {Obj(Absent, Absent, 1, Absent, Absent, <<Cand("host")>>)}]

StartRequests ==
    [kind : {"object"}, body : StartBodies, flag : BOOLEAN]
    \cup [kind : {"nojson", "array"}, body : {Absent}, flag : {FALSE}]

DirectOffers(P) == [pc_id : P \cup {0}, request_data : {"{a:1}"}]
DirectPatches(P) == [pc_id : P, candidates : {<<>>, <<"host">>, <<"host", "relay">>}]

\* The ids clients send: the first two ever issued, in use or not yet.
SessionIds == {1, 2}
PcIds == {1, 2}

\* The response leaves the server; the next request step follows it.
response_delivered ==
    /\ resp # NoResp
    /\ resp' = NoResp
    /\ UNCHANGED <<config, served, active_sessions, started, pcs, inflight, bots>>

Next ==
    \/ response_delivered
    \/ \E q \in StartRequests : rtvi_start(q.kind, q.body, q.flag)
    \/ health
    \/ \E session_id \in SessionIds, q \in ProxyRequests(PcIds) :
          proxy_request(session_id, q.path, q.method, q.b)
    \/ \E request \in DirectOffers(PcIds) : post_api_offer(request)
    \/ \E request \in DirectPatches(PcIds) : patch_api_offer(request)
    \/ \E r \in inflight, ok \in BOOLEAN : handle_web_request(r, ok)
    \/ \E r \in inflight : offer_return(r)
    \/ \E i \in DOMAIN bots : run_background_task(i)
    \/ \E i \in DOMAIN bots : bot_fails(i)
    \/ \E r \in inflight : add_ice_candidate(r)
    \/ \E r \in inflight : ice_candidate_return(r)

Spec == Init /\ [][Next]_vars

-----------------------------------------------------------------------------
(* The ICE policy builder on its own: every environment, then the import *)

InitIce ==
    /\ env \in Envs
    /\ loaded = FALSE
    /\ ICE_SERVERS = <<>>
    /\ ICE_CONFIG_FOR_CLIENT = <<>>
    /\ active_sessions = <<>>
    /\ started = <<>>
    /\ pcs = <<>>
    /\ inflight = {}
    /\ bots = <<>>
    /\ resp = NoResp
    /\ xin = NoXlate
    /\ xout = NoRequest
    /\ lifecycle = Serving
    /\ InitMulti
    /\ edge_tts = NoTts
    /\ served = 0

\* ICE_SERVERS, _CLIENT_ICE_LIST = build_ice_servers()
load_module ==
    /\ ~loaded
    /\ loaded' = TRUE
    /\ ICE_SERVERS' = build_ice_servers(env).server
    /\ ICE_CONFIG_FOR_CLIENT' = build_ice_servers(env).client
    /\ UNCHANGED <<env, active_sessions, started, pcs, inflight, bots, resp, xin, xout, lifecycle, multi, edge_tts,
                   served>>

NextIce == load_module \/ health \/ response_delivered

SpecIce == InitIce /\ [][NextIce]_vars

-----------------------------------------------------------------------------
(* The proxy's body translation on its own: every body, then the translation *)

XlateBodies ==
    { Obj("v=0", "offer", p, rd, rc, <<>>) :
        p \in 0..1,
        rd \in RequestDataValues,
        rc \in RequestDataCamelValues }

InitXlate ==
    /\ env = FullTurn
    /\ loaded = TRUE
    /\ ICE_SERVERS = build_ice_servers(env).server
    /\ ICE_CONFIG_FOR_CLIENT = build_ice_servers(env).client
    /\ active_sessions = <<>>
    /\ started = <<>>
    /\ pcs = <<>>
    /\ inflight = {}
    /\ bots = <<>>
    /\ resp = NoResp
    /\ xin \in [b : XlateBodies, active_session : {JEmpty, "{s:1}"}]
    /\ xout = NoRequest
    /\ lifecycle = Serving
    /\ InitMulti
    /\ edge_tts = NoTts
    /\ served = 0

\* webrtc_request = SmallWebRTCRequest(...)
build_webrtc_request ==
    /\ ~xout.built
    /\ LET q == translate_offer(xin.b, xin.active_session)
       IN  xout' = [built |-> TRUE, pc_id |-> q.pc_id, request_data |-> q.request_data]
    /\ UNCHANGED <<env, loaded, ICE_SERVERS, ICE_CONFIG_FOR_CLIENT, active_sessions,
                   started, pcs, inflight, bots, resp, xin, served, lifecycle, multi, edge_tts>>

NextXlate == build_webrtc_request

SpecXlate == InitXlate /\ [][NextXlate]_vars

-----------------------------------------------------------------------------
(* POST /start on its own, under several environments *)

StartEnvs ==
    { NoTurn, FullTurn,
      [FullTurn EXCEPT !.TURN_USERNAME = Val(<<" ">>)],
      [NoTurn EXCEPT !.TURN_URL = Val(Str_turns \o <<"h">>)] }

InitStart ==
    /\ env \in StartEnvs
    /\ loaded = TRUE
    /\ ICE_SERVERS = build_ice_servers(env).server
    /\ ICE_CONFIG_FOR_CLIENT = build_ice_servers(env).client
    /\ active_sessions = <<>>
    /\ started = <<>>
    /\ pcs = <<>>
    /\ inflight = {}
    /\ bots = <<>>
    /\ resp = NoResp
    /\ xin = NoXlate
    /\ xout = NoRequest
    /\ lifecycle = Serving
    /\ InitMulti
    /\ edge_tts = NoTts
    /\ served = 0

NextStart ==
    \/ response_delivered
    \/ \E q \in StartRequests : rtvi_start(q.kind, q.body, q.flag)

SpecStart == InitStart /\ [][NextStart]_vars

-----------------------------------------------------------------------------
(* Shutdown: the lifespan of the application *)

\* bot_module.bot(runner_args) returns: the background task is over.
bot_returns(i) ==
    /\ Idle
    /\ i \in DOMAIN bots /\ bots[i].state = "running"
    /\ bots' = [bots EXCEPT ![i].state = "done"]
    /\ UNCHANGED <<config, served, active_sessions, started, pcs, inflight, resp>>

\* The server is told to stop: it accepts no request any more and lets the
\* requests in flight and their background tasks end.
shutdown_signal ==
    /\ Idle /\ lifecycle.phase = "serving"
    /\ lifecycle' = [lifecycle EXCEPT
                        !.phase = "stopping",
                        !.negotiating =
                            Cardinality({r \in inflight : r.kind = "offer"
                                                          /\ r.stage = "exchange"})]
    /\ UNCHANGED <<env, loaded, ICE_SERVERS, ICE_CONFIG_FOR_CLIENT, xin, xout, served, multi, edge_tts,
                   active_sessions, started, pcs, inflight, bots, resp>>

\* small_webrtc_handler.close(): every connection is closed.
close(p) == [c \in DOMAIN p |-> [p[c] EXCEPT !.state = "CLOSED", !.cands = <<>>]]

\* Mutation: the lifespan ends without calling close().
lifespan_without_close ==
    /\ Idle /\ lifecycle.phase = "stopping"
    /\ inflight = {}
    /\ \A i \in DOMAIN bots : bots[i].state \in {"failed", "done"}
    /\ lifecycle' = [lifecycle EXCEPT !.phase = "stopped"]
    /\ UNCHANGED <<env, loaded, ICE_SERVERS, ICE_CONFIG_FOR_CLIENT, xin, xout, served, multi, edge_tts,
                   active_sessions, started, pcs, inflight, bots, resp>>

\* lifespan after its yield: await small_webrtc_handler.close().  The server
\* runs it once no request and no background task is left.
lifespan ==
    /\ Idle /\ lifecycle.phase = "stopping"
    /\ inflight = {}
    /\ \A i \in DOMAIN bots : bots[i].state \in {"failed", "done"}
    /\ pcs' = close(pcs)
    /\ lifecycle' = [lifecycle EXCEPT !.phase = "stopped", !.close_calls = @ + 1]
    /\ UNCHANGED <<env, loaded, ICE_SERVERS, ICE_CONFIG_FOR_CLIENT, xin, xout, served, multi, edge_tts,
                   active_sessions, started, inflight, bots, resp>>

NextShutdown ==
    \/ response_delivered
    \/ \E request \in DirectOffers(PcIds) : post_api_offer(request)
    \/ \E r \in inflight, ok \in BOOLEAN : handle_web_request(r, ok)
    \/ \E r \in inflight : offer_return(r)
    \/ \E i \in DOMAIN bots : run_background_task(i)
    \/ \E i \in DOMAIN bots : bot_fails(i)
    \/ \E i \in DOMAIN bots : bot_returns(i)
    \/ shutdown_signal
    \/ lifespan

\* The event loop runs every handler that can go on, a response that is sent
\* leaves, and the media engine's exchange ends: by itself or by the network
\* stack's timeouts.
FairShutdown ==
    /\ WF_vars(response_delivered)
    /\ WF_vars(\E r \in inflight, ok \in BOOLEAN : handle_web_request(r, ok))
    /\ WF_vars(\E r \in inflight : offer_return(r))

SpecShutdown == Init /\ [][NextShutdown]_vars /\ FairShutdown

-----------------------------------------------------------------------------
(* server.py: the multi-pipeline server and its bot processes *)

\* What server.py does not touch: the state of app.py and of the TTS service.
appvars == <<env, loaded, ICE_SERVERS, ICE_CONFIG_FOR_CLIENT, active_sessions, started,
             pcs, inflight, bots, resp, xin, xout, served, lifecycle, edge_tts>>

MaxSpawns == 2          \* bot processes spawned in one behaviour

BASE_BOT_PORT == 7870

SttValues == {"deepgram", "whisper"}
TtsValues == {"openai", "edge"}

\* combos.get((stt, tts), 0)
combos(stt, tts) ==
    IF stt = "deepgram" /\ tts = "openai" THEN 0
    ELSE IF stt = "deepgram" /\ tts = "edge" THEN 1
    ELSE IF stt = "whisper" /\ tts = "openai" THEN 2
    ELSE IF stt = "whisper" /\ tts = "edge" THEN 3
    ELSE 0

\* Mutation: every configuration gets the base port.
get_port_for_config_base(stt, tts) == BASE_BOT_PORT

get_port_for_config(stt, tts) == BASE_BOT_PORT + combos(stt, tts)

\* dict.pop(k, None)
dict_pop(d, k) == [x \in DOMAIN d \ {k} |-> d[x]]

\* proc.poll() is None
Alive(p) == p.state = "live"

\* proc.terminate(), proc.wait(timeout=5) and on TimeoutExpired proc.kill()
terminate(p) ==
    [p EXCEPT !.state = IF p.ignores_sigterm THEN "killed" ELSE "terminated"]

\* Mutation: the entry of the port is not removed.
stop_bot_keeps_entry(bp, ps, port) ==
    IF port \in DOMAIN bp
    THEN LET id == bp[port]
             proc == IF Alive(ps[id]) THEN terminate(ps[id]) ELSE ps[id]
         IN  [bot_processes |-> bp,
              procs |-> [ps EXCEPT ![id] = [proc EXCEPT !.log_open = FALSE]]]
    ELSE [bot_processes |-> bp, procs |-> ps]

\* stop_bot(port) on the tracked processes bp and the processes ps
stop_bot(bp, ps, port) ==
    IF port \in DOMAIN bp
    THEN LET id == bp[port]
             proc == IF Alive(ps[id]) THEN terminate(ps[id]) ELSE ps[id]
         IN  [bot_processes |-> dict_pop(bp, port),
              procs |-> [ps EXCEPT ![id] = [proc EXCEPT !.log_open = FALSE]]]
    ELSE [bot_processes |-> bp, procs |-> ps]

\* A new process on port: subprocess.Popen(cmd, ...)
Popen(port, ignores_sigterm) ==
    [port |-> port, state |-> "live", log_open |-> TRUE,
     ignores_sigterm |-> ignores_sigterm]

\* Mutation: the bot on the port is not stopped before the new one starts.
start_bot_no_stop(bp, ps, stt, tts, spawned, ignores_sigterm) ==
    LET port == get_port_for_config(stt, tts)
    IN  IF spawned
        THEN [bot_processes |-> dict_set(bp, port, Len(ps) + 1),
              procs |-> Append(ps, Popen(port, ignores_sigterm)),
              port |-> port]
        ELSE [bot_processes |-> bp, procs |-> ps, port |-> port]

\* start_bot(stt, tts).  spawned: open() and Popen() did not raise.
start_bot(bp, ps, stt, tts, spawned, ignores_sigterm) ==
    LET port == get_port_for_config(stt, tts)
        stopped == stop_bot(bp, ps, port)
    IN  IF spawned
        THEN [bot_processes |-> dict_set(stopped.bot_processes, port,
                                         Len(stopped.procs) + 1),
              procs |-> Append(stopped.procs, Popen(port, ignores_sigterm)),
              port |-> port]
        ELSE [bot_processes |-> stopped.bot_processes, procs |-> stopped.procs,
              port |-> port]

\* No response of server.py is on its way out.
ServerIdle == sresp = NoServerResp

ServerResp(route, status, text) ==
    [NoServerResp EXCEPT !.route = route, !.status = status, !.text = text]

\* if stt not in ("deepgram", "whisper")
stt_invalid(stt) == stt \notin SttValues

\* Mutation: the tts value is not validated.
tts_invalid_never(tts) == FALSE

\* if tts not in ("openai", "edge")
tts_invalid(tts) == tts \notin TtsValues

\* POST /launch, to its asyncio.sleep(4)
launch_bot(json, stt, tts, spawned, ignores_sigterm) ==
    /\ ServerIdle /\ server_up /\ Len(procs) < MaxSpawns
    /\ IF ~json
       THEN /\ sresp' = ServerResp("launch", 500, "Internal Server Error")
            /\ UNCHANGED <<bot_processes, procs, launches>>
       ELSE IF stt_invalid(stt)
       THEN /\ sresp' = ServerResp("launch", 400, "Invalid STT")
            /\ UNCHANGED <<bot_processes, procs, launches>>
       ELSE IF tts_invalid(tts)
       THEN /\ sresp' = ServerResp("launch", 400, "Invalid TTS")
            /\ UNCHANGED <<bot_processes, procs, launches>>
       ELSE LET started_bot == start_bot(bot_processes, procs, stt, tts, spawned,
                                         ignores_sigterm)
            IN  /\ bot_processes' = started_bot.bot_processes
                /\ procs' = started_bot.procs
                /\ IF spawned
                   THEN /\ launches' = launches \cup
                                          {[port |-> started_bot.port,
                                            proc |-> Len(started_bot.procs)]}
                        /\ UNCHANGED sresp
                   ELSE /\ sresp' = ServerResp("launch", 500, "Internal Server Error")
                        /\ UNCHANGED launches
    /\ UNCHANGED <<appvars, server_up>>

\* POST /launch after the sleep: the check of the tracked process
launch_check(l) ==
    /\ ServerIdle
    /\ l \in launches
    /\ launches' = launches \ {l}
    /\ sresp' =
         IF l.port \in DOMAIN bot_processes /\ ~Alive(procs[bot_processes[l.port]])
         THEN [ServerResp("launch", 500, "Bot failed to start")
                 EXCEPT !.port = l.port, !.proc = l.proc]
         ELSE [ServerResp("launch", 200, "running")
                 EXCEPT !.port = l.port, !.proc = l.proc]
    /\ UNCHANGED <<appvars, bot_processes, procs, server_up>>

\* POST /stop.  port: body.get("port"), 0 when it is missing or null.
stop_bot_endpoint(json, port) ==
    /\ ServerIdle /\ server_up
    /\ IF ~json
       THEN /\ sresp' = ServerResp("stop", 500, "Internal Server Error")
            /\ UNCHANGED <<bot_processes, procs>>
       ELSE IF port # 0 /\ port \in DOMAIN bot_processes
       THEN LET stopped == stop_bot(bot_processes, procs, port)
            IN  /\ bot_processes' = stopped.bot_processes
                /\ procs' = stopped.procs
                /\ sresp' = [ServerResp("stop", 200, "stopped") EXCEPT !.port = port]
       ELSE /\ sresp' = [ServerResp("stop", 200, "not_running") EXCEPT !.port = port]
            /\ UNCHANGED <<bot_processes, procs>>
    /\ UNCHANGED <<appvars, launches, server_up>>

\* A bot process ends by itself.
proc_exits(id) ==
    /\ ServerIdle
    /\ id \in DOMAIN procs /\ Alive(procs[id])
    /\ procs' = [procs EXCEPT ![id].state = "exited"]
    /\ UNCHANGED <<appvars, bot_processes, launches, sresp, server_up>>

\* Mutation: the loop runs over bot_processes itself and ends with the first
\* pop, which changes the dict it iterates.
stop_all_first_only(bp, ps, ports) ==
    IF ports = {} THEN [bot_processes |-> bp, procs |-> ps]
    ELSE stop_bot(bp, ps, CHOOSE port \in ports : TRUE)

\* for port in list(bot_processes.keys()): stop_bot(port)
RECURSIVE stop_all(_, _, _)
stop_all(bp, ps, ports) ==
    IF ports = {} THEN [bot_processes |-> bp, procs |-> ps]
    ELSE LET port == CHOOSE port \in ports : TRUE
             stopped == stop_bot(bp, ps, port)
         IN  stop_all(stopped.bot_processes, stopped.procs, ports \ {port})

\* The shutdown handler: it runs once the requests in flight have ended.
shutdown ==
    /\ ServerIdle /\ server_up /\ launches = {}
    /\ LET stopped == stop_all(bot_processes, procs, DOMAIN bot_processes)
       IN  /\ bot_processes' = stopped.bot_processes
           /\ procs' = stopped.procs
    /\ server_up' = FALSE
    /\ UNCHANGED <<appvars, launches, sresp>>

\* The response leaves the server; the next request step follows it.
server_response_delivered ==
    /\ sresp # NoServerResp
    /\ sresp' = NoServerResp
    /\ UNCHANGED <<appvars, bot_processes, procs, launches, server_up>>

\* The ports clients name in /stop: those of the bots, none, and another one.
StopPorts == {BASE_BOT_PORT + i : i \in 0..3} \cup {0, BASE_BOT_PORT + 4}

NextServer ==
    \/ server_response_delivered
    \/ \E json \in BOOLEAN, stt \in SttValues \cup {"vosk"},
          tts \in TtsValues \cup {"piper"}, spawned \in BOOLEAN,
          ignores_sigterm \in BOOLEAN :
            launch_bot(json, stt, tts, spawned, ignores_sigterm)
    \/ \E l \in launches : launch_check(l)
    \/ \E json \in BOOLEAN, port \in StopPorts : stop_bot_endpoint(json, port)
    \/ \E id \in DOMAIN procs : proc_exits(id)
    \/ shutdown

SpecServer == Init /\ [][NextServer]_vars

-----------------------------------------------------------------------------
(* edge_tts_service.py: EdgeTTSService.run_tts, consumed to its end *)

MaxPcm == 3             \* bytes of decoded PCM
MaxChunk == 3           \* bytes per audio frame, self.chunk_size

\* What run_tts does not touch.
nontts == <<env, loaded, ICE_SERVERS, ICE_CONFIG_FOR_CLIENT, active_sessions, started,
            pcs, inflight, bots, resp, xin, xout, served, lifecycle, multi>>

ErrorFrame(error) == [type |-> "error", audio |-> <<>>, error |-> error]
TTSStartedFrame == [type |-> "started", audio |-> <<>>, error |-> ""]
TTSAudioRawFrame(audio) == [type |-> "audio", audio |-> audio, error |-> ""]
TTSStoppedFrame == [type |-> "stopped", audio |-> <<>>, error |-> ""]

\* What communicate.stream() delivers: audio chunks and word boundaries.
AudioChunk == [type |-> "audio", data |-> <<"m">>]
EmptyAudioChunk == [type |-> "audio", data |-> <<>>]
WordBoundary == [type |-> "WordBoundary", data |-> <<>>]
Streams ==
    { <<>>, <<WordBoundary>>, <<EmptyAudioChunk>>, <<AudioChunk>>,
      <<WordBoundary, AudioChunk>>, <<AudioChunk, AudioChunk>> }

\* The PCM the decoder returns: every byte string up to MaxPcm bytes.
PcmValues == UNION { [1..n -> {"a", "b"}] : n \in 0..MaxPcm }

Min(a, b) == IF a <= b THEN a ELSE b

\* Mutation: the slice starts one byte late.
py_slice_one_late(data, start, end) == SubSeq(data, start + 2, Min(end, Len(data)))

\* data[start:end] for 0 <= start
py_slice(data, start, end) == SubSeq(data, start + 1, Min(end, Len(data)))

yield(frame) == Append(edge_tts.frames, frame)

InitTts ==
    /\ env = FullTurn
    /\ loaded = TRUE
    /\ ICE_SERVERS = build_ice_servers(env).server
    /\ ICE_CONFIG_FOR_CLIENT = build_ice_servers(env).client
    /\ active_sessions = <<>>
    /\ started = <<>>
    /\ pcs = <<>>
    /\ inflight = {}
    /\ bots = <<>>
    /\ resp = NoResp
    /\ xin = NoXlate
    /\ xout = NoRequest
    /\ lifecycle = Serving
    /\ InitMulti
    /\ served = 0
    /\ edge_tts \in { [NoTts EXCEPT !.pc = "stream", !.chunks = c, !.chunk_size = k] :
                        c \in Streams, k \in 1..MaxChunk }

\* async for chunk in communicate.stream(): one chunk
stream_chunk ==
    /\ edge_tts.pc = "stream" /\ edge_tts.chunks # <<>>
    /\ edge_tts' =
         [edge_tts EXCEPT
            !.chunks = Tail(@),
            !.mp3_buffer = IF Head(edge_tts.chunks).type = "audio"
                           THEN @ \o Head(edge_tts.chunks).data ELSE @]
    /\ UNCHANGED nontts

\* The stream has ended: if not mp3_buffer
stream_end ==
    /\ edge_tts.pc = "stream" /\ edge_tts.chunks = <<>>
    /\ edge_tts' =
         IF edge_tts.mp3_buffer = <<>>
         THEN [edge_tts EXCEPT
                 !.frames = yield(ErrorFrame("Edge TTS returned no audio")),
                 !.pc = "done"]
         ELSE [edge_tts EXCEPT !.pc = "decode"]
    /\ UNCHANGED nontts

\* pcm_data = self._decode_mp3_to_pcm(...), the metrics, yield TTSStartedFrame()
decode_mp3_to_pcm(pcm) ==
    /\ edge_tts.pc = "decode"
    /\ edge_tts' = [edge_tts EXCEPT !.pcm_data = pcm, !.offset = 0,
                                    !.frames = yield(TTSStartedFrame),
                                    !.pc = "chunking"]
    /\ UNCHANGED nontts

\* except Exception: the stream or the decoder raised
raise_exception ==
    /\ edge_tts.pc \in {"stream", "decode"}
    /\ edge_tts' = [edge_tts EXCEPT !.frames = yield(ErrorFrame("Edge TTS error")),
                                    !.pc = "done"]
    /\ UNCHANGED nontts

\* One pass of the while loop
yield_audio ==
    /\ edge_tts.pc = "chunking" /\ edge_tts.offset < Len(edge_tts.pcm_data)
    /\ LET end == Min(edge_tts.offset + edge_tts.chunk_size, Len(edge_tts.pcm_data))
       IN  edge_tts' =
             [edge_tts EXCEPT
                !.frames = yield(TTSAudioRawFrame(
                                    py_slice(edge_tts.pcm_data, edge_tts.offset, end))),
                !.offset = end]
    /\ UNCHANGED nontts

\* Mutation: the generator ends after the loop without a TTSStoppedFrame.
end_without_stopped ==
    /\ edge_tts.pc = "chunking" /\ ~(edge_tts.offset < Len(edge_tts.pcm_data))
    /\ edge_tts' = [edge_tts EXCEPT !.pc = "done"]
    /\ UNCHANGED nontts

\* The loop has ended: yield TTSStoppedFrame()
yield_stopped ==
    /\ edge_tts.pc = "chunking" /\ ~(edge_tts.offset < Len(edge_tts.pcm_data))
    /\ edge_tts' = [edge_tts EXCEPT !.frames = yield(TTSStoppedFrame), !.pc = "done"]
    /\ UNCHANGED nontts

NextTts ==
    \/ stream_chunk
    \/ stream_end
    \/ \E pcm \in PcmValues : decode_mp3_to_pcm(pcm)
    \/ raise_exception
    \/ yield_audio
    \/ yield_stopped

\* The consumer asks for the next frame until the generator has ended.
FairTts == WF_vars(yield_audio) /\ WF_vars(yield_stopped)

SpecTts == InitTts /\ [][NextTts]_vars /\ FairTts

-----------------------------------------------------------------------------
(* Properties *)

\* A response has just been sent by this step.
Responded == resp = NoResp /\ resp' # NoResp

\* Bot tasks scheduled or started for connection c, wherever they are.
RECURSIVE CountIn(_, _)
CountIn(tasks, c) ==
    IF tasks = <<>> THEN 0
    ELSE (IF Head(tasks).pc_id = c THEN 1 ELSE 0) + CountIn(Tail(tasks), c)

RECURSIVE CountInFlight(_, _)
CountInFlight(S, c) ==
    IF S = {} THEN 0
    ELSE LET r == CHOOSE r \in S : TRUE
         IN  CountIn(r.bg, c) + CountInFlight(S \ {r}, c)

TaskCount(c) == CountIn(bots, c) + CountInFlight(inflight, c)

\* C1: every session-proxy response for a session id /start returned is not a
\* 404 and the proxy read the body /start was given ({} when none was given);
\* every session-proxy response for any other id is a 404.
C1_SessionRoundTrip ==
    (resp.route # "none" /\ resp.via = "proxy") =>
        IF resp.known THEN resp.status # 404 /\ resp.bodyOk ELSE resp.status = 404

\* C2: the connection-established callback fires exactly once per established
\* peer connection and never for a renegotiation: each connection has as many
\* bot tasks as callback invocations, at most one, and one once it is connected.
C2_CallbackOncePerConnection ==
    \A c \in DOMAIN pcs :
        /\ TaskCount(c) = pcs[c].callbacks
        /\ pcs[c].callbacks <= 1
        /\ pcs[c].state = "CONNECTED" => pcs[c].callbacks = 1

\* A renegotiation offer has been answered and its connection still has one task.
C2_Witness ==
    /\ resp.route = "offer" /\ resp.status = 200 /\ resp.reneg
    /\ \E c \in DOMAIN pcs : pcs[c].state = "CONNECTED" /\ TaskCount(c) = 1

\* C3: the answer never waits on the bot: a bot task is due or running only
\* once the answer of the offer that created its connection has been sent.
C3_BotAfterAnswer ==
    \A i \in DOMAIN bots : pcs[bots[i].pc_id].answered

\* A bot is running for a connection whose answer went out.
C3_Witness ==
    \E i \in DOMAIN bots : bots[i].state = "running" /\ pcs[bots[i].pc_id].answered

\* C4: a session-proxy request with a session id that is not in the store is
\* answered 404 and changes nothing: not the store, not the connections, not
\* the requests forwarded to the handler, not the bot tasks.
C4_UnknownSession404 ==
    [][ (Responded /\ resp'.via = "proxy" /\ ~resp'.known) =>
          (resp'.status = 404
             /\ UNCHANGED <<active_sessions, started, pcs, inflight, bots>>) ]_vars

\* An unknown session id was answered 404 on POST .../api/offer while a
\* session and a peer connection exist.
C4_Witness ==
    /\ resp.via = "proxy" /\ ~resp.known /\ resp.status = 404
    /\ resp.method = "POST" /\ resp.endsOffer /\ ~resp.malformed
    /\ pcs # <<>> /\ DOMAIN active_sessions # {}

\* C5: a patch whose pc_id the handler does not find is answered 404, on the
\* direct and on the proxied route, and leaves the connections unchanged.
C5_UnknownPcPatchNotFound ==
    [][ (Responded /\ resp'.route = "patch" /\ ~resp'.found) =>
          (resp'.status = 404 /\ UNCHANGED pcs) ]_vars

\* C6: for a session id /start returned, a POST or PATCH to a path ending in
\* api/offer with a malformed body is answered 400 and forwards nothing.
C6_MalformedBody400 ==
    [][ (Responded /\ resp'.via = "proxy" /\ resp'.known /\ resp'.endsOffer
           /\ resp'.method \in {"POST", "PATCH"} /\ resp'.malformed) =>
          (resp'.status = 400 /\ UNCHANGED <<pcs, inflight, bots>>) ]_vars

\* C7: the request_data of the translated offer is the body's request_data
\* field if present, else its requestData field if present, else the
\* session's stored body. A field that is missing or null counts as not
\* present; any other value, {} and false included, counts as present.
C7_RequestDataByPresence ==
    LET Present(v) == v \notin {Absent, JNull}
    IN  xout.built =>
            xout.request_data =
                IF Present(xin.b.request_data) THEN xin.b.request_data
                ELSE IF Present(xin.b.requestData) THEN xin.b.requestData
                ELSE xin.active_session

\* C8: for a session id /start returned with a body other than null, every
\* proxied request other than POST or PATCH on a path ending in api/offer is
\* answered 200 and changes neither the store nor the connections.
C8_PassthroughOk ==
    [][ (Responded /\ resp'.via = "proxy" /\ resp'.known
           /\ (\A sid \in DOMAIN started : started[sid] # JNull)
           /\ ~(resp'.endsOffer /\ resp'.method \in {"POST", "PATCH"})) =>
          (resp'.status = 200
             /\ UNCHANGED <<active_sessions, started, pcs, inflight, bots>>) ]_vars

\* Non-empty after trimming whitespace.
NonEmptyAfterTrim(v) == v.isset /\ \E i \in DOMAIN v.val : v.val[i] # " "
NonEmptyCount(e) ==
    Cardinality({k \in {"TURN_URL", "TURN_USERNAME", "TURN_CREDENTIAL"} :
                    NonEmptyAfterTrim(e[k])})

HasScheme(server, scheme) == StartsWith(server.urls, scheme)

\* C9: with TURN fully set the engine-facing list is the STUN entry, the TURN
\* entry and, exactly when the URL scheme is turn:, a TURNS entry with the
\* same credentials and the scheme swapped to turns:.
C9_TurnAndTurnsEntries ==
    (loaded /\ NonEmptyCount(env) = 3) =>
        LET n == Len(ICE_SERVERS)
            url == ICE_SERVERS[2].urls
        IN  /\ n \in {2, 3}
            /\ HasScheme(ICE_SERVERS[1], <<"s", "t", "u", "n", ":">>)
            /\ ICE_SERVERS[2].username # <<>> /\ ICE_SERVERS[2].credential # <<>>
            /\ n = 3 <=> HasScheme(ICE_SERVERS[2], Str_turn)
            /\ n = 3 =>
                 /\ ICE_SERVERS[3].urls = Str_turns \o SubSeq(url, Len(Str_turn) + 1, Len(url))
                 /\ ICE_SERVERS[3].username = ICE_SERVERS[2].username
                 /\ ICE_SERVERS[3].credential = ICE_SERVERS[2].credential

\* C10: with one or two of the three TURN values non-empty after trimming,
\* both lists hold the STUN entry and nothing else.
C10_PartialTurnStunOnly ==
    (loaded /\ NonEmptyCount(env) \in {1, 2}) =>
        /\ Len(ICE_SERVERS) = 1
        /\ HasScheme(ICE_SERVERS[1], <<"s", "t", "u", "n", ":">>)
        /\ Len(ICE_CONFIG_FOR_CLIENT) = 1
        /\ HasScheme([urls |-> ICE_CONFIG_FOR_CLIENT[1].urls[1]], <<"s", "t", "u", "n", ":">>)
        /\ ~ICE_CONFIG_FOR_CLIENT[1].auth

\* URL and credential are set and the username is whitespace only.
C10_Witness ==
    /\ loaded
    /\ NonEmptyAfterTrim(env.TURN_URL) /\ NonEmptyAfterTrim(env.TURN_CREDENTIAL)
    /\ env.TURN_USERNAME.isset /\ env.TURN_USERNAME.val # <<>>
    /\ ~NonEmptyAfterTrim(env.TURN_USERNAME)
    /\ Len(ICE_SERVERS) = 1

\* C11: the engine-facing and the client-facing ICE list agree: same length,
\* the public STUN server first in both, and at every index the same URL,
\* username and credential.
C11_IceListsAgree ==
    loaded =>
        /\ Len(ICE_SERVERS) = Len(ICE_CONFIG_FOR_CLIENT)
        /\ ICE_SERVERS[1].urls = Str_stun
        /\ \A i \in DOMAIN ICE_SERVERS :
              /\ ICE_CONFIG_FOR_CLIENT[i].urls = <<ICE_SERVERS[i].urls>>
              /\ ICE_CONFIG_FOR_CLIENT[i].username = ICE_SERVERS[i].username
              /\ ICE_CONFIG_FOR_CLIENT[i].credential = ICE_SERVERS[i].credential
              /\ ICE_CONFIG_FOR_CLIENT[i].auth <=> ICE_SERVERS[i].username # <<>>

\* TURN is active and its URL was padded with spaces in the environment.
C11_Witness ==
    /\ loaded /\ Len(ICE_SERVERS) = 2 /\ Len(ICE_CONFIG_FOR_CLIENT) = 2
    /\ env.TURN_URL.val # ICE_SERVERS[2].urls

\* C12: every POST /start whose body is absent, not JSON or a JSON object is
\* answered with a 36-character sessionId and an iceConfig of at least one
\* server, with or without enableDefaultIceServers, and the id is in the store
\* afterwards.
C12_StartResponse ==
    [][ \A q \in StartRequests :
          (q.kind # "array" /\ rtvi_start(q.kind, q.body, q.flag)) =>
             /\ resp'.status = 200
             /\ Len(resp'.sessionId) = 36
             /\ resp'.sessionId = uuid_str(resp'.sid)
             /\ resp'.iceConfig /\ resp'.iceServers >= 1
             /\ resp'.sid \in DOMAIN active_sessions' ]_vars

\* A second session was started without a body field while TURN is off.
C12_Witness ==
    /\ resp.route = "start" /\ resp.status = 200 /\ resp.sid = 2
    /\ started[resp.sid] = Absent /\ Len(ICE_SERVERS) = 1
    /\ resp.iceServers = 1

\* C18: no request removes a stored session or changes its stored body: the
\* set of session ids only grows.
C18_SessionsOnlyGrow ==
    [][ \A sid \in DOMAIN active_sessions :
          /\ sid \in DOMAIN active_sessions'
          /\ active_sessions'[sid] = active_sessions[sid] ]_vars

\* Two sessions are stored, a connection is up and a request was just answered.
C18_Witness ==
    /\ Cardinality(DOMAIN active_sessions) = 2
    /\ active_sessions[1] # active_sessions[2]
    /\ \E c \in DOMAIN pcs : pcs[c].state = "CONNECTED"
    /\ resp.route \in {"health", "patch", "proxy"}

\* C19: /health reports turn_configured exactly when TURN_URL, TURN_USERNAME
\* and TURN_CREDENTIAL are all non-empty after trimming.
C19_HealthTurnConfigured ==
    resp.route = "health" => (resp.turn_configured <=> NonEmptyCount(env) = 3)

\* /health answered true although the username is padded in the environment.
C19_Witness ==
    /\ resp.route = "health" /\ resp.turn_configured
    /\ env.TURN_USERNAME.val = <<" ", "u">>

\* The pc_id names no connection the handler ever created.
UnknownPc(pc_id) == pc_id # 0 /\ pc_id \notin DOMAIN pcs

C14_NegotiationFailure5xx ==
    [][ (Responded /\ resp'.route = "offer" /\ resp'.found /\ resp'.status # 200) =>
          (resp'.status >= 500 /\ resp'.status <= 599 /\ UNCHANGED bots) ]_vars

\* C15: a bot that fails after its connection was established fails after the
\* answer of its offer went out with success, and its failure changes no
\* response, no request in flight, no connection and no session.
C15_BotFailureIsolated ==
    [][ \A i \in DOMAIN bots :
          (bots[i].state # "failed" /\ bots'[i].state = "failed") =>
             /\ pcs[bots[i].pc_id].answered
             /\ UNCHANGED <<resp, inflight, pcs, active_sessions, started>> ]_vars

\* A bot has failed while another offer is still being negotiated.
C15_Witness ==
    /\ \E i \in DOMAIN bots : bots[i].state = "failed"
    /\ \E r \in inflight : r.kind = "offer" /\ r.stage = "exchange"

\* C16: the candidates of a connection are applied in the order received:
\* those of an earlier patch request before those of a later one, and those of
\* one request in list order.
C16_CandidatesInOrder ==
    \A c \in DOMAIN pcs :
        \A i, j \in DOMAIN pcs[c].cands :
            i < j =>
                \/ pcs[c].cands[i].seq < pcs[c].cands[j].seq
                \/ /\ pcs[c].cands[i].seq = pcs[c].cands[j].seq
                   /\ pcs[c].cands[i].idx < pcs[c].cands[j].idx

\* An offer/answer exchange is still going on.
Negotiating == \E r \in inflight : r.kind = "offer" /\ r.stage = "exchange"

C20_LiveBotsTracked ==
    \A id \in DOMAIN procs :
        Alive(procs[id]) =>
            /\ procs[id].port \in DOMAIN bot_processes
            /\ bot_processes[procs[id].port] = id

\* A bot was replaced on its port: the first is terminated, the second is
\* alive and tracked.
C20_Witness ==
    \E a, b \in DOMAIN procs :
        /\ a < b /\ procs[a].port = procs[b].port
        /\ procs[a].state \in {"terminated", "killed"}
        /\ Alive(procs[b]) /\ bot_processes[procs[b].port] = b

\* C21: when /launch answers "running" for a port, the process that request
\* started is the one tracked for the port and it is alive.
C21_RunningMeansTrackedAlive ==
    (sresp.route = "launch" /\ sresp.status = 200) =>
        /\ sresp.port \in DOMAIN bot_processes
        /\ bot_processes[sresp.port] = sresp.proc
        /\ Alive(procs[sresp.proc])

\* The bots tracked on the ports other than port stay tracked and untouched.
OthersUntouched(port) ==
    \A q \in DOMAIN bot_processes \ {port} :
        /\ q \in DOMAIN bot_processes'
        /\ bot_processes'[q] = bot_processes[q]
        /\ procs'[bot_processes[q]] = procs[bot_processes[q]]

\* C22: the four valid configurations have four distinct ports, 7870 to 7873,
\* and a /launch or a /stop for one of them leaves the tracked bot of every
\* other port as it was.
C22_ConfigsDoNotInterfere ==
    [][ /\ \A s1, s2 \in SttValues, t1, t2 \in TtsValues :
              /\ get_port_for_config(s1, t1) \in BASE_BOT_PORT .. BASE_BOT_PORT + 3
              /\ <<s1, t1>> # <<s2, t2>> =>
                    get_port_for_config(s1, t1) # get_port_for_config(s2, t2)
        /\ \A stt \in SttValues, tts \in TtsValues, spawned, ignores_sigterm \in BOOLEAN :
              launch_bot(TRUE, stt, tts, spawned, ignores_sigterm) =>
                 OthersUntouched(get_port_for_config(stt, tts))
        /\ \A json \in BOOLEAN, port \in StopPorts :
              stop_bot_endpoint(json, port) => OthersUntouched(port) ]_vars

\* Two bots of different configurations are alive and tracked, the second
\* launched while the first was running.
C22_Witness ==
    /\ Cardinality(DOMAIN bot_processes) = 2
    /\ \A port \in DOMAIN bot_processes : Alive(procs[bot_processes[port]])

\* C23: a /launch whose stt is not deepgram or whisper, or whose tts is not
\* openai or edge, is answered 400 and starts and stops nothing.
C23_InvalidLaunch400 ==
    [][ \A stt \in SttValues \cup {"vosk"}, tts \in TtsValues \cup {"piper"},
           spawned, ignores_sigterm \in BOOLEAN :
          ((stt \notin SttValues \/ tts \notin TtsValues)
             /\ launch_bot(TRUE, stt, tts, spawned, ignores_sigterm)) =>
             (sresp'.status = 400 /\ UNCHANGED <<bot_processes, procs, launches>>) ]_vars

\* An unknown tts was refused while a bot is running.
C23_Witness ==
    /\ sresp.route = "launch" /\ sresp.status = 400 /\ sresp.text = "Invalid TTS"
    /\ \E port \in DOMAIN bot_processes : Alive(procs[bot_processes[port]])

\* C24: after a stop the port is not tracked, its process is not running and
\* its log file is closed; stopping again changes nothing, and /stop for a
\* port that is not tracked answers "not_running" and changes nothing.
C24_StopIdempotent ==
    [][ /\ \A port \in StopPorts :
              LET once == stop_bot(bot_processes, procs, port)
              IN  stop_bot(once.bot_processes, once.procs, port) = once
        /\ \A port \in StopPorts :
              stop_bot_endpoint(TRUE, port) =>
                 IF port # 0 /\ port \in DOMAIN bot_processes
                 THEN /\ sresp'.text = "stopped"
                      /\ port \notin DOMAIN bot_processes'
                      /\ ~Alive(procs'[bot_processes[port]])
                      /\ ~procs'[bot_processes[port]].log_open
                 ELSE /\ sresp'.text = "not_running"
                      /\ UNCHANGED <<bot_processes, procs, launches>> ]_vars

\* A second /stop for a port whose bot was stopped before.
C24_Witness ==
    /\ sresp.route = "stop" /\ sresp.text = "not_running"
    /\ sresp.port = BASE_BOT_PORT /\ sresp.port \notin DOMAIN bot_processes
    /\ \E id \in DOMAIN procs :
          /\ procs[id].port = sresp.port /\ ~procs[id].log_open
          /\ procs[id].state \in {"terminated", "killed"}

\* C25: once the shutdown handler has run, bot_processes is empty and no bot
\* process that was ever spawned is alive.
C25_ShutdownStopsAll ==
    ~server_up =>
        /\ bot_processes = <<>>
        /\ \A id \in DOMAIN procs : ~Alive(procs[id])

\* Shutdown stopped two bots on different ports, one of them by kill.
C25_Witness ==
    /\ ~server_up
    /\ \E a, b \in DOMAIN procs :
          /\ procs[a].port # procs[b].port
          /\ procs[a].state = "terminated" /\ procs[b].state = "killed"
          /\ ~procs[a].log_open /\ ~procs[b].log_open

FrameTypes(frames) == [i \in 1..Len(frames) |-> frames[i].type]

\* The frames yielded so far can still become a well-formed sequence: nothing
\* follows an ErrorFrame or a TTSStoppedFrame, an ErrorFrame has nothing
\* before it, and a TTSStartedFrame comes first and only once.
WellFormedSoFar(frames) ==
    \A i \in 1..Len(frames) :
        /\ frames[i].type = "started" => i = 1
        /\ frames[i].type = "error" => i = 1 /\ Len(frames) = 1
        /\ frames[i].type = "audio" => i > 1 /\ frames[1].type = "started"
        /\ frames[i].type = "stopped" =>
              i > 1 /\ i = Len(frames) /\ frames[1].type = "started"

\* Either one ErrorFrame alone, or TTSStartedFrame, audio frames,
\* TTSStoppedFrame.
WellFormed(frames) ==
    \/ Len(frames) = 1 /\ frames[1].type = "error"
    \/ /\ Len(frames) >= 2
       /\ frames[1].type = "started"
       /\ frames[Len(frames)].type = "stopped"
       /\ \A i \in 2..(Len(frames) - 1) : frames[i].type = "audio"

RECURSIVE AudioOf(_)
\* The audio of the audio frames, in the order they were yielded.
AudioOf(frames) ==
    IF frames = <<>> THEN <<>>
    ELSE (IF Head(frames).type = "audio" THEN Head(frames).audio ELSE <<>>)
         \o AudioOf(Tail(frames))

\* C26: a run of run_tts that is consumed to its end yields either one
\* ErrorFrame and no TTSStartedFrame, or one TTSStartedFrame, then the audio
\* frames, then one TTSStoppedFrame; at every moment the frames yielded so far
\* are a prefix of such a sequence, and a TTSStartedFrame is always followed
\* by a TTSStoppedFrame.
C26_FramesWellFormed ==
    /\ [](WellFormedSoFar(edge_tts.frames))
    /\ [](edge_tts.pc = "done" => WellFormed(edge_tts.frames))
    /\ ((edge_tts.frames # <<>> /\ edge_tts.frames[1].type = "started")
          ~> (edge_tts.pc = "done"
               /\ edge_tts.frames[Len(edge_tts.frames)].type = "stopped"))

\* A finished run with TTSStartedFrame, two audio frames and TTSStoppedFrame.
C26_Witness ==
    /\ edge_tts.pc = "done"
    /\ FrameTypes(edge_tts.frames) = <<"started", "audio", "audio", "stopped">>

\* C27: with non-empty decoded PCM and a positive chunk_size the chunking
\* loop ends, every audio frame is non-empty and holds at most chunk_size
\* bytes, the audio yielded so far is the PCM up to offset, and once the loop
\* has ended the audio frames together are the decoded PCM.
C27_ChunksCoverPcm ==
    /\ []((edge_tts.pc \in {"chunking", "done"} /\ edge_tts.pcm_data # <<>>
            /\ edge_tts.chunk_size > 0) =>
           /\ \A i \in 1..Len(edge_tts.frames) :
                 edge_tts.frames[i].type = "audio" =>
                    /\ edge_tts.frames[i].audio # <<>>
                    /\ Len(edge_tts.frames[i].audio) <= edge_tts.chunk_size
           /\ AudioOf(edge_tts.frames)
                 = SubSeq(edge_tts.pcm_data, 1, edge_tts.offset)
           /\ edge_tts.pc = "done" =>
                 AudioOf(edge_tts.frames) = edge_tts.pcm_data)
    /\ ((edge_tts.pc = "chunking" /\ edge_tts.pcm_data # <<>>
          /\ edge_tts.chunk_size > 0) ~> (edge_tts.pc = "done"))

\* Three bytes of PCM went out as a frame of two bytes and a frame of one.
C27_Witness ==
    /\ edge_tts.pc = "done"
    /\ edge_tts.chunk_size = 2
    /\ edge_tts.pcm_data = <<"a", "b", "a">>
    /\ Len(edge_tts.frames) = 4
    /\ edge_tts.frames[2].audio = <<"a", "b">>
    /\ edge_tts.frames[3].audio = <<"a">>

====
